---- MODULE Spec2Model ----
(***************************************************************************)
(* Hierarchical timer wheel of camshaft/timewarp (src/wheel.rs,            *)
(* src/stack.rs, src/entry.rs).                                            *)
(*                                                                         *)
(* A tick is a little-endian string of NumStacks "bytes"; each byte takes  *)
(* Radix values (256 in the program).  All byte arithmetic below is done   *)
(* on the byte strings exactly as the code does it, so the model is the    *)
(* program with a narrower byte and fewer stacks.  The target is assumed   *)
(* little-endian, where to_be() reverses the bytes of a tick.              *)
(***************************************************************************)
EXTENDS Integers, Sequences, FiniteSets, TLC

\* ---------------------------------------------------------------- bounds
Radix == 3
NumStacks == 3
MaxInserts == 2
MaxDelay == 10
MaxWrap == 2
MaxWakes == 2
MaxRegisters == 2
MaxSeen == 2

Idx == 0 .. (NumStacks - 1)
Byte == 0 .. (Radix - 1)

RECURSIVE Pow(_, _)
Pow(b, n) == IF n = 0 THEN 1 ELSE b * Pow(b, n - 1)

TickMod == Pow(Radix, NumStacks)
TickMax == TickMod - 1
Ticks == 0 .. TickMax

\* the delays the driver inserts: the short ones and those near the top of
\* the tick range, whose expiry wraps
Delays == {d \in Ticks : d <= MaxDelay \/ d >= TickMod - MaxWrap}

\* Option::None; a panic unwinding out of the call; a call that never returns
None == -1
Panic == -2
Diverges == -3

Min(S) == CHOOSE x \in S : \A y \in S : x <= y
Max(S) == CHOOSE x \in S : \A y \in S : x >= y

\* ------------------------------------------------------------ entry.rs
\* <uN as Tick>
wrapping_add(a, b) == (a + b) % TickMod

to_le_bytes(t) == [i \in Idx |-> (t \div Pow(Radix, i)) % Radix]

RECURSIVE SumBytes(_, _)
SumBytes(bytes, i) ==
    IF i = NumStacks THEN 0 ELSE bytes[i] * Pow(Radix, i) + SumBytes(bytes, i + 1)

from_le_bytes(bytes) == SumBytes(bytes, 0)

\* bitwise xor of two bytes
RECURSIVE XorByte(_, _)
XorByte(x, y) ==
    IF x = 0 THEN y
    ELSE IF y = 0 THEN x
    ELSE (((x % 2) + (y % 2)) % 2) + 2 * XorByte(x \div 2, y \div 2)

\* ops::BitXor on ticks, kept as its byte string (little-endian order)
BitXor(a, b) == [i \in Idx |-> XorByte(to_le_bytes(a)[i], to_le_bytes(b)[i])]

\* to_be() on a little-endian target: byte i becomes byte NumStacks-1-i
to_be(bytes) == [i \in Idx |-> bytes[NumStacks - 1 - i]]

is_zero(bytes) == \A i \in Idx : bytes[i] = 0

\* leading_zeros() / 8: the number of zero bytes from the most significant
\* end (index NumStacks-1) downwards
leading_zero_bytes(bytes) ==
    IF is_zero(bytes) THEN NumStacks
    ELSE (NumStacks - 1) - Max({i \in Idx : bytes[i] # 0})

\* self.checked_sub(rhs), else self + (rhs - Self::MAX).  The subtraction
\* rhs - MAX underflows unless rhs = MAX: with overflow checks (debug and
\* test builds) that is a panic, without them it wraps.
elapsed_since(self, rhs, checks) ==
    IF self >= rhs THEN self - rhs
    ELSE IF checks /\ rhs # TickMax THEN Panic
    ELSE (self + ((rhs - TickMax) % TickMod)) % TickMod

\* Storage::ticks
StorageTicks(st) == from_le_bytes([i \in Idx |-> st[i].current])

\* Storage::is_empty
StorageIsEmpty(st) == \A i \in Idx : st[i].occupied = {}

\* ------------------------------------------------------------ stack.rs
EmptyStack ==
    [slots |-> [b \in Byte |-> <<>>], occupied |-> {}, current |-> 0]

StackInsert(s, index, entry) ==
    [s EXCEPT !.occupied = @ \cup {index},
              !.slots[index] = Append(@, entry)]


\* Bitset::next_occupied(after): the smallest set bit j > after, or None
BitsetNextOccupied(occ, after) ==
    IF \E j \in occ : j > after
    THEN Min({j \in occ : j > after})
    ELSE None

\* Stack::next_occupied
StackNextOccupied(s, current) ==
    LET next == BitsetNextOccupied(s.occupied, current)
    IN  IF next # None THEN <<next, FALSE>> ELSE <<0, TRUE>>

\* Stack::next_tick: (cursor, wrapped)
next_tick(s, can_skip) ==
    LET current == (s.current + 1) % Radix
        wrapped == (s.current + 1) >= Radix
    IN  IF can_skip THEN StackNextOccupied(s, current)
        ELSE <<current, wrapped>>

\* Stack::take that clears the occupancy bit and hands out the queue without
\* emptying the slot
StackTake_keep(s) ==
    [stack |-> [s EXCEPT !.occupied = @ \ {s.current}],
     list  |-> s.slots[s.current]]

\* Stack::take
StackTake(s) ==
    [stack |-> [s EXCEPT !.occupied = @ \ {s.current},
                         !.slots[s.current] = <<>>],
     list  |-> s.slots[s.current]]

\* Stack::tick: the stack afterwards, the queue taken and the wrapped flag
StackTick(s, can_skip) ==
    LET nt == next_tick(s, can_skip)
    IN  [wrapped |-> nt[2]] @@ StackTake([s EXCEPT !.current = nt[1]])

\* ------------------------------------------------------------ wheel.rs
\* delay.wrapping_add(start_tick)
AbsoluteTime(e, start_tick) == wrapping_add(e.delay, start_tick)

\* Wheel::insert_at from `if zero_time.is_zero()` on, taking the entry for
\* due as soon as the lowest byte of its expiry equals that of now
insert_at_lowbyte_placed(w, entry, absolute_bytes, zero_time) ==
    IF zero_time[NumStacks - 1] = 0
    THEN [w   |-> [w EXCEPT !.pending_wake = Append(@, entry)],
          ret |-> TRUE]
    ELSE [w   |-> [w EXCEPT !.stacks[leading_zero_bytes(zero_time)] =
                       StackInsert(@,
                           absolute_bytes[leading_zero_bytes(zero_time)],
                           entry)],
          ret |-> FALSE]

\* Wheel::insert_at with that test
insert_at_lowbyte(w, entry, now, start_tick) ==
    insert_at_lowbyte_placed(w, entry,
        to_le_bytes(AbsoluteTime(entry, start_tick)),
        to_be(BitXor(AbsoluteTime(entry, start_tick), now)))

\* Wheel::insert_at from `if zero_time.is_zero()` on: index is
\* leading / 8, position is absolute_bytes[index]
insert_at_placed(w, entry, absolute_bytes, zero_time) ==
    IF is_zero(zero_time)
    THEN [w   |-> [w EXCEPT !.pending_wake = Append(@, entry)],
          ret |-> TRUE]
    ELSE [w   |-> [w EXCEPT !.stacks[leading_zero_bytes(zero_time)] =
                       StackInsert(@,
                           absolute_bytes[leading_zero_bytes(zero_time)],
                           entry)],
          ret |-> FALSE]

\* Wheel::insert_at whose zero_time is absolute_time ^ now as it is, not
\* byte-swapped
insert_at_unswapped(w, entry, now, start_tick) ==
    insert_at_placed(w, entry,
        to_le_bytes(AbsoluteTime(entry, start_tick)),
        BitXor(AbsoluteTime(entry, start_tick), now))

\* Wheel::insert_at: the wheel afterwards and the returned bool
insert_at(w, entry, now, start_tick) ==
    insert_at_placed(w, entry,
        to_le_bytes(AbsoluteTime(entry, start_tick)),
        to_be(BitXor(AbsoluteTime(entry, start_tick), now)))

\* Wheel::insert
WheelInsert(w, entry) ==
    insert_at(w, [entry EXCEPT !.start_tick = StorageTicks(w.stacks)],
              StorageTicks(w.stacks), StorageTicks(w.stacks)).w

\* the `for (index, next_byte) in ...` loop of next_expiration, from index on
RECURSIVE NextExpirationFrom(_, _, _, _)
NextExpirationFrom(w, index, next_time, can_skip) ==
    IF index = NumStacks THEN next_time
    ELSE LET stack == w.stacks[index]
             nt    == next_tick(stack, can_skip)
             bytes == [next_time EXCEPT ![index] = nt[1]]
         IN  IF ~nt[2] THEN bytes
             ELSE NextExpirationFrom(w, index + 1, bytes,
                                     can_skip /\ (stack.occupied = {}))

\* Wheel::next_expiration
next_expiration(w) ==
    IF StorageIsEmpty(w.stacks) THEN None
    ELSE from_le_bytes(NextExpirationFrom(w, 0,
                           to_le_bytes(StorageTicks(w.stacks)), TRUE))

\* Wheel::next_delta
next_delta(w, checks) ==
    IF next_expiration(w) = None THEN None
    ELSE elapsed_since(next_expiration(w), StorageTicks(w.stacks), checks)

\* the `while let Some(entry) = list.pop()` loop of skip_once: Reinsert pops
\* an entry and calls insert_at, Reinserted sets the flags from its result
RECURSIVE Reinsert(_, _, _, _)
RECURSIVE Reinserted(_, _, _, _)
Reinsert(w, list, now, fl) ==
    IF list = <<>> THEN [w |-> w, fl |-> fl]
    ELSE Reinserted(insert_at(w, Head(list), now, Head(list).start_tick),
                    Tail(list), now, fl)

Reinserted(r, list, now, fl) ==
    Reinsert(r.w, list, now,
             [has_pending |-> fl.has_pending \/ r.ret,
              can_skip    |-> fl.can_skip /\ r.ret,
              is_empty    |-> FALSE])

\* the `for index in 0..self.stacks.len()` loop of skip_once, from index on:
\* SkipOnceFrom ticks the stack, SkipOnceTicked re-buckets the queue taken
\* with now = ticks(), SkipOnceNext returns or goes on to the next stack
RECURSIVE SkipOnceFrom(_, _, _)
RECURSIVE SkipOnceTicked(_, _, _, _)
RECURSIVE SkipOnceNext(_, _, _)
SkipOnceFrom(w, index, fl) ==
    IF index = NumStacks
    THEN [w |-> w, ret |-> IF fl.is_empty THEN "None"
                           ELSE IF fl.has_pending THEN "true" ELSE "false"]
    ELSE SkipOnceTicked(w, index, fl,
                        StackTick(w.stacks[index], fl.can_skip))

SkipOnceTicked(w, index, fl, t) ==
    SkipOnceNext(index, t.wrapped,
                 Reinsert([w EXCEPT !.stacks[index] = t.stack], t.list,
                          StorageTicks([w.stacks EXCEPT ![index] = t.stack]),
                          fl))

SkipOnceNext(index, did_wrap, r) ==
    IF ~did_wrap
    THEN [w |-> r.w, ret |-> IF r.fl.has_pending THEN "true" ELSE "false"]
    ELSE SkipOnceFrom(r.w, index + 1,
             [has_pending |-> r.fl.has_pending,
              can_skip    |-> r.fl.can_skip
                                /\ (r.w.stacks[index].occupied = {}),
              is_empty    |-> r.fl.is_empty /\ r.fl.can_skip
                                /\ (r.w.stacks[index].occupied = {})])

\* Wheel::skip_once
skip_once(w) ==
    SkipOnceFrom(w, 0, [has_pending |-> FALSE, can_skip |-> TRUE,
                        is_empty |-> TRUE])

\* one round of the `while !self.skip_once()?` loop of skip, on the loop's
\* state: the wheel, the iteration count, how the loop ended (or "running")
\* and the wheel values seen so far; r is what skip_once returned.  skip_once
\* is a function of the wheel alone, so the loop never ends once a wheel
\* value repeats.
SkipRoundWith(s, r) ==
    IF r.ret = "None" THEN [s EXCEPT !.w = r.w, !.ret = "None"]
    ELSE IF r.ret = "true" THEN [s EXCEPT !.w = r.w, !.ret = "Some"]
    ELSE IF r.w \in s.seen THEN [s EXCEPT !.w = r.w, !.ret = "Diverges"]
    ELSE [s EXCEPT !.w = r.w, !.iterations = @ + 1,
                   !.seen = @ \cup {r.w}]

SkipRound(s) ==
    IF s.ret # "running" THEN s ELSE SkipRoundWith(s, skip_once(s.w))

\* up to n rounds of the loop, evaluated by halving n
RECURSIVE SkipRounds(_, _)
SkipRounds(s, n) ==
    IF s.ret # "running" \/ n = 0 THEN s
    ELSE IF n = 1 THEN SkipRound(s)
    ELSE SkipRounds(SkipRounds(s, n \div 2), n - (n \div 2))

\* the whole loop
SkipLoop(w) ==
    SkipRounds([w |-> w, iterations |-> 0, ret |-> "running", seen |-> {w}],
               TickMod * TickMod)

\* the end of Wheel::skip: `?` on the loop's None, else
\* Some(self.ticks().elapsed_since(start)); s is the loop's final state, and
\* between the wheel values the loop went through before its last round
SkipReturn(s, start, checks) ==
    [w   |-> s.w,
     iterations |-> s.iterations,
     between |-> s.seen,
     ret |-> IF s.ret = "None" THEN None
             ELSE IF s.ret = "Some"
             THEN elapsed_since(StorageTicks(s.w.stacks), start, checks)
             ELSE Diverges]

\* Wheel::skip without the has_pending pre-check
WheelSkip_nopending(w, checks) ==
    IF StorageIsEmpty(w.stacks)
    THEN [w |-> w, iterations |-> 0, between |-> {}, ret |-> None]
    ELSE SkipReturn(SkipLoop(w), StorageTicks(w.stacks), checks)

\* Wheel::skip: the wheel afterwards and the returned Option<Tick>
WheelSkip(w, checks) ==
    IF w.pending_wake # <<>>
    THEN [w |-> w, iterations |-> 0, between |-> {}, ret |-> 0]
    ELSE IF StorageIsEmpty(w.stacks)
    THEN [w |-> w, iterations |-> 0, between |-> {}, ret |-> None]
    ELSE SkipReturn(SkipLoop(w), StorageTicks(w.stacks), checks)

\* Wheel::wake: the wheel afterwards, the entries handed to the callback in
\* order, and the returned count
WheelWake(w) ==
    [w     |-> [w EXCEPT !.pending_wake = <<>>],
     list  |-> w.pending_wake,
     count |-> Len(w.pending_wake)]

\* ------------------------------------------------------------ the driver
RECURSIVE SeqSet(_)
SeqSet(q) == IF q = <<>> THEN {} ELSE {Head(q)} \cup SeqSet(Tail(q))

\* the entries held in the slot queues of the stacks
HeldIn(st) == UNION {SeqSet(st[i].slots[b]) : i \in Idx, b \in Byte}

\* absolute expiry of an entry: start_tick + delay, as the tick type wraps it
Expiry(e) == wrapping_add(e.delay, e.start_tick)

\* the same sum, not wrapped
AbsOf(e) == e.start_tick + e.delay

MinExpiry(st) ==
    IF HeldIn(st) = {} THEN None ELSE Min({Expiry(e) : e \in HeldIn(st)})

VARIABLES
    stacks,        \* Wheel.stacks: one [slots, occupied, current] per index
    pending_wake,  \* Wheel.pending_wake
    born,          \* one record per Wheel::insert call so far, in order: the
                   \* delay given, ticks() at the call and the values of
                   \* skips and wakes at the call
    skips,         \* number of skip() calls that found pending_wake empty and
                   \* the stacks occupied, and so ran skip_once
    woken,         \* entries handed to the wake callback, in order, each with
                   \* the number of the wake() call that delivered it and the
                   \* value of skips at that call
    wakes,         \* number of wake() calls that delivered something
    total_ticks,   \* sum of the Some(d) returned by skip(), modulo the tick
    last,          \* the last call: its name and result, and as they were
                   \* before it: ticks(), the length of pending_wake, the
                   \* earliest expiry held in the stacks, the number of
                   \* distinct expiries there, the earliest expiry overall;
                   \* for skip(), the final value of its iterations counter
                   \* and the wheel values between its skip_once() rounds
    halted,        \* a call panicked or never returned
    unit,          \* a single call of one function on arguments of its own:
                   \* the function's name, the arguments, whether it has
                   \* run and what it returned
    atomic         \* one atomic::Entry and the threads that share it

\* the wheel and what its driver records
wheel_vars == <<stacks, pending_wake, born, skips, woken, wakes, total_ticks,
                last, halted>>

vars == <<stacks, pending_wake, born, skips, woken, wakes, total_ticks, last,
          halted, unit, atomic>>

inserted == Len(born)

Wheel == [stacks |-> stacks, pending_wake |-> pending_wake]

ticks == StorageTicks(stacks)

\* the number of distinct expiries held in the stacks
Kinds(st) == Cardinality({Expiry(e) : e \in HeldIn(st)})

\* the earliest start_tick + delay among all entries the wheel holds
Soonest(w) ==
    IF HeldIn(w.stacks) \cup SeqSet(w.pending_wake) = {} THEN None
    ELSE Min({AbsOf(e) : e \in HeldIn(w.stacks) \cup SeqSet(w.pending_wake)})

Call(op, ret) ==
    [op |-> op, ret |-> ret, start |-> ticks,
     pending |-> Len(pending_wake), due |-> MinExpiry(stacks),
     kinds |-> Kinds(stacks), soonest |-> Soonest(Wheel), iterations |-> 0,
     between |-> {}]

\* no single call under examination
NoCall == [fn |-> "none", done |-> FALSE]

\* an AtomicWaker holding no waker (AtomicWaker::new, or after take)
NoWaker == 0

\* the wakers handed to register, numbered in the order of the calls
Wakers == 1 .. MaxRegisters

\* atomic::Entry::new: both flags false, no waker registered
EntryNew ==
    [expired |-> FALSE, registered |-> FALSE, waker |-> NoWaker]

\* atomic::Entry::wake, first statement: expired.store(true)
WakeStoreExpired(e) == [e EXCEPT !.expired = TRUE]

\* atomic::Entry::wake, second statement: registered.store(false)
WakeStoreRegistered(e) == [e EXCEPT !.registered = FALSE]

\* a take that removes the waker and calls nothing
WakeTake_silent(e) ==
    [entry |-> [e EXCEPT !.waker = NoWaker], woke |-> NoWaker]

\* atomic::Entry::wake, `if let Some(waker) = self.waker.take()`: the entry
\* afterwards and the waker whose wake() is called (NoWaker: none).
\* AtomicWaker::take removes the stored waker and returns it.
WakeTake(e) ==
    [entry |-> [e EXCEPT !.waker = NoWaker], woke |-> e.waker]

\* should_register that reads the flag and leaves it alone
should_register_load(e) == [entry |-> e, ret |-> ~e.registered]

\* atomic::Entry::should_register: !registered.swap(true)
should_register(e) ==
    [entry |-> [e EXCEPT !.registered = TRUE], ret |-> ~e.registered]

\* cancel that leaves the waker where it is
cancel_keep(e) ==
    e

\* atomic::Entry::cancel: waker.take(), the waker dropped
cancel(e) ==
    [e EXCEPT !.waker = NoWaker]

\* take_expired that reads the flag and leaves it alone
take_expired_load(e) == [entry |-> e, ret |-> e.expired]

\* atomic::Entry::take_expired: expired.swap(false)
take_expired(e) ==
    [entry |-> [e EXCEPT !.expired = FALSE], ret |-> e.expired]

\* atomic::Entry::register: AtomicWaker::register stores the waker in place
\* of the one it held
register(e, waker) == [e EXCEPT !.waker = waker]

\* an entry nobody has touched, shared by a driver and polling threads:
\*   pc        where the driver is inside Entry::wake ("idle": outside)
\*   queued    how many times the entry is in the wheel
\*   handoff   should_register() calls that returned true whose caller has
\*             not inserted the entry yet
\*   dropped   the last reference is gone and Drop has run
\* and, recorded for the properties:
\*   wakes     Entry::wake calls begun
\*   regs      register calls made
\*   grants    should_register() calls that returned true since the last
\*             Entry::wake began
\*   observed  take_expired() calls that returned true since the last
\*             expired.store(true)
\*   fresh     an expired.store(true) has happened since the last
\*             take_expired() that returned true
\*   cancelled cancel() has been called and register has not been since
\*   invoked   per waker, how many times its wake() was called
\*   call      the last call finished (or, for wake, begun), its result,
\*             what it found, how many times the entry was queued before
\*             it and the waker it called
\*   poll      the last register call and the first take_expired() after
\*             it: the waker registered, how far the pair has got ("none",
\*             "registered", "polled"), what take_expired() returned, and
\*             the number of Entry::wake calls begun at either call
HandshakeNew ==
    [entry |-> EntryNew, pc |-> "idle", queued |-> 0, handoff |-> 0,
     dropped |-> FALSE, wakes |-> 0, regs |-> 0, grants |-> 0,
     observed |-> 0, fresh |-> FALSE, cancelled |-> FALSE,
     invoked |-> [k \in Wakers |-> 0],
     call |-> [fn |-> "new", ret |-> FALSE, found |-> FALSE, queued |-> 0,
               woke |-> NoWaker],
     poll |-> [pc |-> "none", waker |-> NoWaker, ret |-> FALSE,
               began |-> 0, ended |-> 0]]

\* Wheel::default: the wheel and what its driver has recorded of it
WheelDefault ==
    /\ stacks = [i \in Idx |-> EmptyStack]
    /\ pending_wake = <<>>
    /\ born = <<>>
    /\ skips = 0
    /\ woken = <<>>
    /\ wakes = 0
    /\ total_ticks = 0
    /\ last = [op |-> "default", ret |-> None, start |-> 0,
               pending |-> 0, due |-> None, kinds |-> 0, soonest |-> None,
               iterations |-> 0, between |-> {}]
    /\ halted = FALSE

\* Wheel::default, and an entry nobody has touched
Init ==
    /\ WheelDefault
    /\ unit = NoCall
    /\ atomic = HandshakeNew

\* wheel.insert(Entry::new(delay))
Insert ==
    /\ ~halted
    /\ inserted < MaxInserts
    /\ \E delay \in Delays :
         \E w \in {WheelInsert(Wheel, [id |-> inserted, delay |-> delay,
                                        start_tick |-> 0])} :
             /\ stacks' = w.stacks
             /\ pending_wake' = w.pending_wake
             /\ last' = Call("insert", delay)
             /\ born' = Append(born, [delay |-> delay, start |-> ticks,
                                      skips |-> skips, wakes |-> wakes])
    /\ UNCHANGED <<skips, woken, wakes, total_ticks, halted, unit, atomic>>

\* wheel.skip(), in a build with or without overflow checks
Skip ==
    /\ ~halted
    /\ \E checks \in BOOLEAN :
         \E r \in {WheelSkip(Wheel, checks)} :
             /\ stacks' = r.w.stacks
             /\ pending_wake' = r.w.pending_wake
             /\ last' = [Call("skip", r.ret) EXCEPT
                             !.iterations = r.iterations,
                             !.between = r.between]
             /\ halted' = (r.ret \in {Panic, Diverges})
             /\ total_ticks' = IF r.ret >= 0
                               THEN wrapping_add(total_ticks, r.ret)
                               ELSE total_ticks
             /\ skips' = IF pending_wake = <<>> /\ ~StorageIsEmpty(stacks)
                          THEN skips + 1 ELSE skips
    /\ UNCHANGED <<born, woken, wakes, unit, atomic>>

RECURSIVE Tag(_, _, _)
Tag(list, n, k) ==
    IF list = <<>> THEN <<>>
    ELSE <<[entry |-> Head(list), wake |-> n, skips |-> k]>>
         \o Tag(Tail(list), n, k)

\* wheel.wake(callback), the callback recording what it is handed
Wake ==
    /\ ~halted
    /\ \E r \in {WheelWake(Wheel)} :
         /\ stacks' = r.w.stacks
         /\ pending_wake' = r.w.pending_wake
         /\ woken' = woken \o Tag(r.list, wakes + 1, skips)
         /\ wakes' = IF r.count > 0 THEN wakes + 1 ELSE wakes
         /\ last' = Call("wake", r.count)
    /\ UNCHANGED <<born, skips, total_ticks, halted, unit, atomic>>

\* wheel.next_expiration()
NextExpiration ==
    /\ ~halted
    /\ last' = Call("next_expiration", next_expiration(Wheel))
    /\ UNCHANGED <<stacks, pending_wake, born, skips, woken, wakes,
                   total_ticks, halted, unit, atomic>>

\* wheel.next_delta(), in a build with or without overflow checks
NextDelta ==
    /\ ~halted
    /\ \E checks \in BOOLEAN :
         \E ret \in {next_delta(Wheel, checks)} :
             /\ last' = Call("next_delta", ret)
             /\ halted' = (ret = Panic)
    /\ UNCHANGED <<stacks, pending_wake, born, skips, woken, wakes,
                   total_ticks, unit, atomic>>

Next == Insert \/ Skip \/ Wake \/ NextExpiration \/ NextDelta

Spec == Init /\ [][Next]_vars

\* ------------------------------------------------------------ claims
\* no insert so far had start_tick + delay beyond the largest tick
NoWrap == \A i \in 1 .. Len(born) : born[i].start + born[i].delay <= TickMax

\* the entries in pending_wake
Pending == SeqSet(pending_wake)

\* C1: while no expiry has overflowed the tick, the entries handed to the wake
\* callback come out in nondecreasing absolute-expiry order: an entry
\* delivered by an earlier wake() never has a larger expiry than one delivered
\* by a later wake().
C1_DeliveryOrder ==
    NoWrap =>
        \A i, j \in 1 .. Len(woken) :
            woken[i].wake < woken[j].wake
                => AbsOf(woken[i].entry) <= AbsOf(woken[j].entry)

\* C2: a skip() called with pending_wake empty and an entry held returns
\* Some(d), d the earliest absolute expiry held minus ticks() before the call,
\* and leaves ticks() at that expiry.
C2_SkipDelta ==
    (last.op = "skip" /\ last.pending = 0 /\ last.due # None)
        => /\ last.ret = last.due - last.start
           /\ ticks = last.due

\* C3: every entry in pending_wake has wrapping absolute expiry equal to
\* ticks(), and no entry with that expiry is left in a stack, so wake()
\* delivers exactly the entries due at ticks().
C3_PendingIsDue ==
    /\ \A e \in Pending : Expiry(e) = ticks
    /\ \A e \in HeldIn(stacks) : Expiry(e) # ticks

\* what was recorded at the insert of entry e
Born(e) == born[e.id + 1]

\* C4: insert puts the entry in pending_wake if and only if its delay is 0.
\* An entry of delay 0 is never stored in a stack and is delivered by the next
\* wake(), with no advancing skip() in between; an entry of non-zero delay
\* reaches pending_wake, and the callback, only after a later skip().
C4_ZeroDelayRouting ==
    /\ last.op = "insert"
          => (last.ret = 0 <=> Len(pending_wake) = last.pending + 1)
    /\ \A e \in HeldIn(stacks) : e.delay # 0
    /\ \A e \in Pending : e.delay = 0 <=> Born(e).skips = skips
    /\ \A i \in 1 .. Len(woken) :
          IF woken[i].entry.delay = 0
          THEN /\ woken[i].skips = Born(woken[i].entry).skips
               /\ woken[i].wake = Born(woken[i].entry).wakes + 1
          ELSE woken[i].skips > Born(woken[i].entry).skips

\* C4 witness: the callback has been handed an entry of delay 0 and one of
\* non-zero delay
C4_Witness ==
    /\ \E i \in 1 .. Len(woken) : woken[i].entry.delay = 0
    /\ \E i \in 1 .. Len(woken) : woken[i].entry.delay # 0

\* C5: a skip() called while pending_wake is non-empty returns Some(0) and
\* changes neither the stacks (cursors, slot queues, occupancy) nor
\* pending_wake, every time it is called.
C5_SkipWithPending ==
    [][(pending_wake # <<>> /\ last'.op = "skip")
          => (last'.ret = 0 /\ stacks' = stacks
              /\ pending_wake' = pending_wake)]_vars

\* C5 witness: skip() has been called with an entry pending and another one
\* held in a stack, which it could have advanced to
C5_Witness ==
    /\ last.op = "skip" /\ last.ret = 0
    /\ last.pending > 0 /\ last.due # None

\* C6: ticks() equals the sum of the Some(d) returned by skip(), modulo the
\* tick width.
C6_TickAccounting == ~halted => total_ticks = ticks

\* all slot queues of the stacks from index i, slot b on, concatenated
RECURSIVE Flat(_, _, _)
Flat(st, i, b) ==
    IF i = NumStacks THEN <<>>
    ELSE IF b = Radix THEN Flat(st, i + 1, 0)
    ELSE st[i].slots[b] \o Flat(st, i, b + 1)

\* every place an entry can be: the slot queues, pending_wake, the callback
Everywhere ==
    Flat(stacks, 0, 0) \o pending_wake
        \o [i \in 1 .. Len(woken) |-> woken[i].entry]

\* C7: every inserted entry is in exactly one place (one slot queue,
\* pending_wake, or handed to the callback, once), as it was inserted, and
\* nothing else is anywhere; a slot is marked occupied exactly when its queue
\* holds an entry.
C7_ExactlyOnce ==
    /\ Len(Everywhere) = inserted
    /\ {Everywhere[k].id : k \in 1 .. Len(Everywhere)} = 0 .. (inserted - 1)
    /\ \A k \in 1 .. Len(Everywhere) :
          /\ Everywhere[k].delay = Born(Everywhere[k]).delay
          /\ Everywhere[k].start_tick = Born(Everywhere[k]).start
    /\ \A i \in Idx, b \in Byte :
          (b \in stacks[i].occupied) <=> (stacks[i].slots[b] # <<>>)

\* C7 witness: one entry delivered, another re-bucketed by skip_once into a
\* stack other than the one insert chose
C7_Witness ==
    /\ woken # <<>>
    /\ \E i \in Idx, b \in Byte :
          \E k \in 1 .. Len(stacks[i].slots[b]) :
              LET e == stacks[i].slots[b][k]
              IN  leading_zero_bytes(to_be(BitXor(Expiry(e), e.start_tick))) # i

\* C8: every skip() returns, and one called with pending_wake empty and
\* entries held makes the entries of the earliest expiry pending, so that k
\* distinct expiries are drained by exactly k rounds of skip() and wake();
\* after the last round skip() returns None and wake() returns 0.
C8_RoundsDrain ==
    /\ last.op = "skip" => last.ret \notin {Panic, Diverges}
    /\ (last.op = "skip" /\ last.pending = 0 /\ last.due # None)
          => (pending_wake # <<>> /\ Kinds(stacks) = last.kinds - 1)
    /\ (last.op = "wake" /\ last.pending = 0) => last.ret = 0

\* C9: next_expiration(), when it returns Some(t), returns the earliest
\* start_tick + delay among the entries the wheel holds.  Stated for the
\* plainest case: nothing pending and no expiry beyond the largest tick.
C9_NextExpirationIsSoonest ==
    (NoWrap /\ last.op = "next_expiration" /\ last.ret # None
            /\ last.pending = 0)
        => last.ret = last.soonest

\* C10: skip() and next_expiration() return None exactly when the wheel
\* holds no entry, in no stack slot and not in pending_wake, and a call that
\* returns None leaves ticks() as it was.
C10_NoneIffEmpty ==
    last.op \in {"skip", "next_expiration"}
        => /\ last.ret = None <=> (last.due = None /\ last.pending = 0)
           /\ last.ret = None => ticks = last.start

\* ------------------------------------------------------- single calls
\* One function applied once to arguments drawn from its whole (bounded)
\* domain, on a wheel of its own.

\* the start_tick an entry can carry when insert_at runs at now: it was
\* inserted at most MaxDelay ticks earlier
StartTicks(now) == {t \in Ticks : (now - t) % TickMod <= MaxDelay}

\* a wheel holding nothing whose cursors read now
WheelAt(now) ==
    [stacks |-> [i \in Idx |->
                    [EmptyStack EXCEPT !.current = to_le_bytes(now)[i]]],
     pending_wake |-> <<>>]

\* a stack with its cursor at current and one entry in each slot of occupied
StackWith(current, occupied) ==
    [slots    |-> [b \in Byte |->
                      IF b \in occupied
                      THEN <<[id |-> b, delay |-> 0, start_tick |-> 0]>>
                      ELSE <<>>],
     occupied |-> occupied,
     current  |-> current]

\* the entry handed to insert_at
UnitEntry == [id |-> 0, delay |-> unit.delay, start_tick |-> unit.start_tick]

UnitInit ==
    /\ WheelDefault
    /\ atomic = HandshakeNew
    /\ \/ \E now \in Ticks, delay \in Delays :
             \E start_tick \in StartTicks(now) :
                 unit = [fn |-> "insert_at", done |-> FALSE, ret |-> None,
                         now |-> now, delay |-> delay,
                         start_tick |-> start_tick]
       \/ \E self \in Ticks, rhs \in Ticks :
             unit = [fn |-> "elapsed_since", done |-> FALSE, ret |-> None,
                     self |-> self, rhs |-> rhs]
       \/ \E current \in Byte, occupied \in SUBSET Byte,
             can_skip \in BOOLEAN, fn \in {"next_tick", "tick"} :
             unit = [fn |-> fn, done |-> FALSE, ret |-> None,
                     stack |-> StackWith(current, occupied),
                     can_skip |-> can_skip]

\* self.insert_at(entry, now, start_tick)
InsertAt ==
    /\ unit.fn = "insert_at" /\ ~unit.done
    /\ unit' = [unit EXCEPT !.done = TRUE,
                            !.ret = insert_at(WheelAt(unit.now), UnitEntry,
                                              unit.now, unit.start_tick)]
    /\ UNCHANGED <<wheel_vars, atomic>>

\* self.elapsed_since(rhs), in a build with or without overflow checks
ElapsedSince ==
    /\ unit.fn = "elapsed_since" /\ ~unit.done
    /\ \E checks \in BOOLEAN :
          unit' = [unit EXCEPT !.done = TRUE,
                               !.ret = elapsed_since(unit.self, unit.rhs,
                                                     checks)]
    /\ UNCHANGED <<wheel_vars, atomic>>

\* stack.next_tick(can_skip)
NextTick ==
    /\ unit.fn = "next_tick" /\ ~unit.done
    /\ unit' = [unit EXCEPT !.done = TRUE,
                            !.ret = next_tick(unit.stack, unit.can_skip)]
    /\ UNCHANGED <<wheel_vars, atomic>>

\* stack.tick(can_skip)
Tick ==
    /\ unit.fn = "tick" /\ ~unit.done
    /\ unit' = [unit EXCEPT !.done = TRUE,
                            !.ret = StackTick(unit.stack, unit.can_skip)]
    /\ UNCHANGED <<wheel_vars, atomic>>

UnitNext == InsertAt \/ ElapsedSince \/ NextTick \/ Tick

UnitSpec == UnitInit /\ [][UnitNext]_vars

\* the byte positions at which two ticks differ
Differ(a, b) == {i \in Idx : to_le_bytes(a)[i] # to_le_bytes(b)[i]}

\* what insert_at returns if it stores the entry in stack index, in the slot
\* numbered by that byte of the entry's expiry
StoredIn(now, index, e) ==
    [w   |-> [WheelAt(now) EXCEPT !.stacks[index] =
                 StackInsert(@, to_le_bytes(Expiry(e))[index], e)],
     ret |-> FALSE]

\* what insert_at returns if it pushes the entry to pending_wake
MadePending(now, e) ==
    [w   |-> [WheelAt(now) EXCEPT !.pending_wake = <<e>>],
     ret |-> TRUE]

\* C11 as stated: insert_at stores an entry whose expiry differs from now in
\* the stack of the HIGHEST byte position at which expiry and now differ, in
\* the slot numbered by that byte of the expiry; an entry whose expiry equals
\* now it pushes to pending_wake, returning true.
C11_HighestByte ==
    (unit.fn = "insert_at" /\ unit.done)
        => unit.ret = IF Expiry(UnitEntry) = unit.now
                      THEN MadePending(unit.now, UnitEntry)
                      ELSE StoredIn(unit.now,
                                    Max(Differ(Expiry(UnitEntry), unit.now)),
                                    UnitEntry)

\* C11 amended: insert_at (on a little-endian target) stores an entry whose
\* expiry differs from now in the stack of the LOWEST byte position at which
\* expiry and now differ, in the slot numbered by that byte of the expiry; an
\* entry whose expiry equals now it pushes to pending_wake, returning true.
C11_LowestByte ==
    (unit.fn = "insert_at" /\ unit.done)
        => unit.ret = IF Expiry(UnitEntry) = unit.now
                      THEN MadePending(unit.now, UnitEntry)
                      ELSE StoredIn(unit.now,
                                    Min(Differ(Expiry(UnitEntry), unit.now)),
                                    UnitEntry)

\* C11 witness: insert_at has stored an entry whose expiry differs from now
\* at two byte positions or more, with now past the entry's start_tick
C11_Witness ==
    /\ unit.fn = "insert_at" /\ unit.done
    /\ unit.start_tick # unit.now
    /\ Cardinality(Differ(Expiry(UnitEntry), unit.now)) >= 2
    /\ unit.ret.ret = FALSE

\* C12: elapsed_since(self, rhs) returns (self - rhs) modulo the number of
\* tick values for every pair of ticks, and never overflows.
C12_ElapsedSince ==
    (unit.fn = "elapsed_since" /\ unit.done)
        => unit.ret = (unit.self - unit.rhs) % TickMod

\* C16: next_tick(can_skip) returns wrapped = true exactly when the cursor it
\* returns is not strictly greater than the old cursor, for every cursor,
\* every occupancy set and both values of can_skip.
C16_WrappedIffWraps ==
    (unit.fn = "next_tick" /\ unit.done)
        => (unit.ret[2] <=> unit.ret[1] <= unit.stack.current)

\* the occupied slots above the cursor of stack s
Above(s) == {j \in s.occupied : j > s.current}

\* the smallest occupied slot above the cursor with wrapped = false, or
\* (0, true) when there is none
NextAbove(s) ==
    IF Above(s) # {} THEN <<Min(Above(s)), FALSE>> ELSE <<0, TRUE>>

\* C17: next_tick(true) returns (j, false), j the smallest occupied slot
\* strictly above the cursor (the slot right after the cursor included), or
\* (0, true) when no slot above the cursor is occupied; tick(true) moves the
\* cursor there, clears that slot's occupancy bit and returns its whole queue.
C17_NextOccupiedAbove ==
    /\ (unit.fn = "next_tick" /\ unit.done /\ unit.can_skip)
          => unit.ret = NextAbove(unit.stack)
    /\ (unit.fn = "tick" /\ unit.done /\ unit.can_skip)
          => unit.ret =
               [stack   |-> [unit.stack EXCEPT
                                !.current = NextAbove(unit.stack)[1],
                                !.occupied = @ \ {NextAbove(unit.stack)[1]},
                                !.slots[NextAbove(unit.stack)[1]] = <<>>],
                list    |-> unit.stack.slots[NextAbove(unit.stack)[1]],
                wrapped |-> NextAbove(unit.stack)[2]]

\* u16::MAX, the iteration count at which the test build's assertion in the
\* loop of skip fails
u16_MAX == 65535

\* C18: skip() terminates: called with pending_wake empty and a non-empty
\* stack, its loop over skip_once() reaches Some(true) or None after finitely
\* many iterations, fewer than 2^16.
C18_SkipTerminates ==
    (last.op = "skip" /\ last.pending = 0 /\ last.due # None)
        => last.ret # Diverges /\ last.iterations < u16_MAX

\* C19: in every reachable state with a non-empty stack, the Some(t) that
\* next_expiration() returns is the value of ticks() right after one
\* skip_once() run from that same state.
C19_NextExpirationTwin ==
    ~StorageIsEmpty(stacks)
        => next_expiration(Wheel) = StorageTicks(skip_once(Wheel).w.stacks)

\* no entry held in a stack slot of wheel w has an absolute expiry at or
\* before w's ticks()
NonePassed(w) ==
    \A e \in HeldIn(w.stacks) : AbsOf(e) > StorageTicks(w.stacks)

\* C20: while no start_tick + delay has overflowed the tick, every entry held
\* in a stack slot has an absolute expiry strictly greater than ticks(), in
\* every state reached by insert, skip and wake and in the states between the
\* skip_once() rounds of a skip().
C20_NeverPastHeld ==
    NoWrap => /\ NonePassed(Wheel)
              /\ \A w \in last.between : NonePassed(w)

\* ------------------------------------------------ the entry's handshake
\* One atomic::Entry shared by the driver, which owns the wheel, and any
\* number of polling threads.  Every method but wake is one atomic
\* instruction, so a call by any thread is one step; wake is three steps of
\* the driver.  The driver inserts the entry when a should_register() call
\* returned true and calls Entry::wake from the wake callback, on an entry
\* the wheel has just handed over.

Finished(fn, ret, found, woke) ==
    [fn |-> fn, ret |-> ret, found |-> found, queued |-> atomic.queued,
     woke |-> woke]

\* some thread calls entry.should_register()
ShouldRegister ==
    /\ ~atomic.dropped
    /\ atomic.grants < MaxSeen
    /\ \E r \in {should_register(atomic.entry)} :
         atomic' = [atomic EXCEPT
                      !.entry = r.entry,
                      !.handoff = IF r.ret THEN @ + 1 ELSE @,
                      !.grants = IF r.ret THEN @ + 1 ELSE @,
                      !.call = Finished("should_register", r.ret,
                                        atomic.entry.registered, NoWaker)]
    /\ UNCHANGED <<wheel_vars, unit>>

\* the driver inserts the entry for a caller whose should_register()
\* returned true
InsertEntry ==
    /\ ~atomic.dropped
    /\ atomic.handoff > 0
    /\ atomic' = [atomic EXCEPT
                    !.handoff = @ - 1,
                    !.queued = @ + 1,
                    !.call = Finished("insert", FALSE, FALSE, NoWaker)]
    /\ UNCHANGED <<wheel_vars, unit>>

\* Wheel::wake hands the entry to the callback, which calls Entry::wake:
\* expired.store(true)
WakeBegin ==
    /\ ~atomic.dropped
    /\ atomic.pc = "idle"
    /\ atomic.queued > 0
    /\ atomic.wakes < MaxWakes
    /\ atomic' = [atomic EXCEPT
                    !.entry = WakeStoreExpired(@),
                    !.pc = "expired_stored",
                    !.queued = @ - 1,
                    !.wakes = @ + 1,
                    !.grants = 0,
                    !.observed = 0,
                    !.fresh = TRUE,
                    !.call = Finished("wheel.wake", FALSE, FALSE, NoWaker)]
    /\ UNCHANGED <<wheel_vars, unit>>

\* Entry::wake: registered.store(false)
WakeClear ==
    /\ atomic.pc = "expired_stored"
    /\ atomic' = [atomic EXCEPT
                    !.entry = WakeStoreRegistered(@),
                    !.pc = "registered_stored"]
    /\ UNCHANGED <<wheel_vars, unit>>

\* Entry::wake: waker.take() and the call of the waker taken; wake returns
WakeNotify ==
    /\ atomic.pc = "registered_stored"
    /\ \E r \in {WakeTake(atomic.entry)} :
         atomic' = [atomic EXCEPT
                      !.entry = r.entry,
                      !.pc = "idle",
                      !.invoked = IF r.woke = NoWaker THEN @
                                  ELSE [@ EXCEPT ![r.woke] = @ + 1],
                      !.call = Finished("wake", FALSE, atomic.cancelled,
                                        r.woke)]
    /\ UNCHANGED <<wheel_vars, unit>>

\* some thread calls entry.take_expired()
TakeExpired ==
    /\ ~atomic.dropped
    /\ atomic.observed < MaxSeen
    /\ \E r \in {take_expired(atomic.entry)} :
         atomic' = [atomic EXCEPT
                      !.entry = r.entry,
                      !.observed = IF r.ret THEN @ + 1 ELSE @,
                      !.fresh = IF r.ret THEN FALSE ELSE @,
                      !.call = Finished("take_expired", r.ret,
                                        atomic.fresh, NoWaker),
                      !.poll = IF @.pc # "registered" THEN @
                               ELSE [@ EXCEPT !.pc = "polled",
                                              !.ret = r.ret,
                                              !.ended = atomic.wakes]]
    /\ UNCHANGED <<wheel_vars, unit>>

\* some thread calls entry.register(waker) with a waker of its own
Register ==
    /\ ~atomic.dropped
    /\ atomic.regs < MaxRegisters
    /\ atomic' = [atomic EXCEPT
                    !.entry = register(@, atomic.regs + 1),
                    !.regs = @ + 1,
                    !.cancelled = FALSE,
                    !.call = Finished("register", FALSE, FALSE, NoWaker),
                    !.poll = [pc |-> "registered",
                              waker |-> atomic.regs + 1, ret |-> FALSE,
                              began |-> atomic.wakes,
                              ended |-> atomic.wakes]]
    /\ UNCHANGED <<wheel_vars, unit>>

\* some thread calls entry.cancel()
Cancel ==
    /\ ~atomic.dropped
    /\ atomic' = [atomic EXCEPT
                    !.entry = cancel(@),
                    !.cancelled = TRUE,
                    !.call = Finished("cancel", FALSE, FALSE, NoWaker)]
    /\ UNCHANGED <<wheel_vars, unit>>

\* the last Arc<Entry> goes away while the wheel does not hold the entry:
\* Drop for Entry calls cancel
Drop ==
    /\ ~atomic.dropped
    /\ atomic.pc = "idle"
    /\ atomic.queued = 0
    /\ atomic.handoff = 0
    /\ atomic' = [atomic EXCEPT
                    !.entry = cancel(@),
                    !.dropped = TRUE,
                    !.cancelled = TRUE,
                    !.call = Finished("drop", FALSE, FALSE, NoWaker)]
    /\ UNCHANGED <<wheel_vars, unit>>

EntryInit ==
    /\ WheelDefault
    /\ unit = NoCall
    /\ atomic = HandshakeNew

EntryNext ==
    \/ ShouldRegister \/ InsertEntry \/ WakeBegin \/ WakeClear \/ WakeNotify
    \/ TakeExpired \/ Register \/ Cancel \/ Drop

EntrySpec == EntryInit /\ [][EntryNext]_vars

\* C13: should_register() guards against double insertion: at most one call
\* returns true between two consecutive Entry::wake() calls, a call returns
\* true exactly when it found registered false, and the entry is never in the
\* wheel twice (inserted or about to be) at the same time.
C13_SingleRegistration ==
    /\ atomic.grants <= 1
    /\ atomic.queued + atomic.handoff <= 1
    /\ atomic.call.fn = "should_register"
          => (atomic.call.ret <=> ~atomic.call.found)

\* C13 witness: after a wake, one should_register() call has returned true
\* and a later one, racing with it, has returned false
C13_Witness ==
    /\ atomic.wakes >= 1
    /\ atomic.grants = 1
    /\ atomic.call.fn = "should_register"
    /\ ~atomic.call.ret

\* C14: take_expired() returns true only if a wake() has stored expired
\* since the last take_expired() that returned true (never before the first
\* wake), at most one take_expired() returns true per wake(), and when wake()
\* has returned registered is false unless a should_register() call has
\* returned true since.
C14_ObservedOnce ==
    /\ atomic.observed <= 1
    /\ atomic.wakes = 0 => atomic.observed = 0 /\ ~atomic.entry.expired
    /\ (atomic.call.fn = "take_expired" /\ atomic.call.ret)
          => atomic.call.found
    /\ (atomic.wakes > 0 /\ atomic.pc \in {"idle", "registered_stored"}
           /\ atomic.grants = 0)
          => ~atomic.entry.registered

\* C14 witness: two threads have polled the same wake: one take_expired()
\* returned true and a later one false, the wake having returned
C14_Witness ==
    /\ atomic.wakes >= 1
    /\ atomic.pc = "idle"
    /\ atomic.observed = 1
    /\ atomic.call.fn = "take_expired"
    /\ ~atomic.call.ret

\* C15: a wake() after cancel() with no register() in between calls no
\* waker; cancel() clears the waker and leaves the entry queued in the wheel
\* as it was; and no registered waker is called more than once.
C15_LazyCancel ==
    /\ (atomic.call.fn = "wake" /\ atomic.call.found)
          => atomic.call.woke = NoWaker
    /\ atomic.call.fn = "cancel"
          => atomic.entry.waker = NoWaker /\ atomic.queued = atomic.call.queued
    /\ \A k \in Wakers : atomic.invoked[k] <= 1

\* C15 witness: a waker was registered, the entry was cancelled while in the
\* wheel, and the wheel has still delivered it: wake() ran and called nothing
C15_Witness ==
    /\ atomic.call.fn = "wake"
    /\ atomic.call.found
    /\ atomic.regs >= 1
    /\ atomic.call.woke = NoWaker
    /\ \A k \in Wakers : atomic.invoked[k] = 0

\* ------------------------------------------- one polling context
\* The handshake with a single polling context, which calls register and
\* then take_expired(), over and over, and never cancels; the driver as
\* before.

\* the polling context calls entry.register(waker)
PollRegister ==
    /\ atomic.poll.pc # "registered"
    /\ Register

\* the polling context calls entry.take_expired()
PollTakeExpired ==
    /\ atomic.poll.pc = "registered"
    /\ TakeExpired

PollNext ==
    \/ ShouldRegister \/ InsertEntry \/ WakeBegin \/ WakeClear \/ WakeNotify
    \/ PollRegister \/ PollTakeExpired

PollSpec == EntryInit /\ [][PollNext]_vars

\* Entry::wake calls that have returned
WakesDone == IF atomic.pc = "idle" THEN atomic.wakes ELSE atomic.wakes - 1

\* C21: no lost wake-up: when the polling context has called register and
\* then take_expired(), a wake() that stored expired between the two calls
\* makes that take_expired() return true, and once a wake() begun after a
\* take_expired() that returned false has returned, the waker registered has
\* been called.
C21_NoLostWake ==
    /\ (atomic.poll.pc = "polled" /\ atomic.poll.ended > atomic.poll.began)
          => atomic.poll.ret
    /\ (atomic.poll.pc = "polled" /\ ~atomic.poll.ret
           /\ WakesDone > atomic.poll.ended)
          => atomic.invoked[atomic.poll.waker] >= 1

\* C21 witness: the polling context registered, saw take_expired() = false,
\* and a wake() that began afterwards has returned, having called its waker
C21_Witness ==
    /\ atomic.poll.pc = "polled"
    /\ ~atomic.poll.ret
    /\ WakesDone > atomic.poll.ended
    /\ atomic.invoked[atomic.poll.waker] = 1

====
